---- MODULE Spec2Model ----
(***************************************************************************)
(* A model of the three scripts of the repository:                         *)
(*   - dev-build.py       the build orchestrator (install, test, clean,    *)
(*                        build, lint, all, help);                         *)
(*   - run_tests.py       the test runner wrapper around pytest;           *)
(*   - tests/conftest.py  the autouse clean_environment fixture.           *)
(* External processes are the environment: each invocation's outcome       *)
(* (tool found or not, exit code) is chosen nondeterministically.          *)
(***************************************************************************)
EXTENDS Integers, Sequences, FiniteSets, TLC

VARIABLES
    \* ---- dev-build.py ------------------------------------------------
    command,        \* args.command
    quick,          \* args.quick
    pc,             \* position of the orchestrator's main()
    stepIdx,        \* index of run_all's loop over `steps`
    called,         \* history: step functions invoked by run_all, in order
    results,        \* history: what each of them returned
    calls,          \* history: per step function called, which of `procs`
                    \* are its own, where among them clean_build ran, and
                    \* whether tests/test_requirements.txt was there
    procs,          \* history: external processes invoked, with outcome
    success,        \* main()'s local `success`
    exitCode,       \* exit status of the orchestrator process
    \* ---- the working directory (clean_build) --------------------------
    tree,           \* set of nodes [path, kind] below "."
    dirOnly,        \* does a trailing "/" of a glob pattern select only
                    \* directories (Python >= 3.11) or is it ignored
    removed_count,  \* clean_build's counter, as of its last run
    tree_before,    \* history: the tree before the last clean_build run
    removed_log,    \* history: removed_count of every clean_build run
    \* ---- run_tests.py -------------------------------------------------
    args,           \* the parsed argparse namespace
    rpc,            \* position of the wrapper's main()
    launched,       \* history: processes started by TestRunner.run_command
    modes,          \* history: test modes executed
    deps,           \* history: how the dependency checks of main() ended
    rexit,          \* exit status of the wrapper process
    \* ---- tests/conftest.py: clean_environment --------------------------
    environ,        \* os.environ: a function from the set names to values
    original_env,   \* the fixture's local copy
    fpc,            \* position of the fixture around one test
    env_initial,    \* history: os.environ before the fixture ran
    env_at_start,   \* history: os.environ when the test body started
    env_at_end      \* history: os.environ when the test body ended

buildVars == <<command, quick, pc, stepIdx, called, results, calls, procs,
               success, exitCode>>
fsVars == <<tree, dirOnly, removed_count, tree_before, removed_log>>
runnerVars == <<args, rpc, launched, modes, deps, rexit>>
envVars == <<environ, original_env, fpc, env_initial, env_at_start,
             env_at_end>>
vars == <<buildVars, fsVars, runnerVars, envVars>>

\* Python's None, for an option that was not given.
None == "<None>"

\* --coverage-fail's default (add_argument(..., type=int, default=85)).
DefaultCoverageFail == 85

\* The namespace parse_args() gives when no option is given.
DefaultArgs ==
    [setup |-> FALSE, quick |-> FALSE, integration |-> FALSE,
     coverage |-> FALSE, coverage_fail |-> DefaultCoverageFail,
     check |-> FALSE, lint |-> FALSE, parallel |-> None, verbose |-> FALSE,
     markers |-> None, tests |-> <<>>, pytest_args |-> <<>>]

\* The wrapper is not running.
RunnerIdle ==
    /\ args = DefaultArgs
    /\ rpc = "idle"
    /\ launched = <<>>
    /\ modes = <<>>
    /\ deps = "unchecked"
    /\ rexit = -1

\* The empty dict.
EmptyDict == [k \in {} |-> ""]

\* No test is running.
EnvIdle ==
    /\ environ = EmptyDict
    /\ original_env = EmptyDict
    /\ fpc = "idle"
    /\ env_initial = EmptyDict
    /\ env_at_start = EmptyDict
    /\ env_at_end = EmptyDict

(***************************************************************************)
(* Bounds of the model.                                                    *)
(***************************************************************************)
MaxDepth == 2       \* deepest path below "." that is populated
MaxNodes == 3       \* most files and directories in the tree
MaxCleanRuns == 2   \* clean_build runs in succession

(***************************************************************************)
(* The working directory.  A name is a sequence of atoms ("m", ".pyc"), a  *)
(* path a sequence of names, a glob pattern a sequence of atoms in which   *)
(* "*" matches any run of atoms, "**/" is the recursive marker and a last  *)
(* "/" is the trailing slash.                                              *)
(***************************************************************************)
Names == { <<"build">>, <<"pkg", ".egg-info">>, <<"__pycache__">>,
           <<"m", ".pyc">>, <<"m", ".pyo">>, <<".coverage">>,
           <<"src">>, <<"m", ".py">> }

Kinds == {"file", "dir"}

patterns_to_remove ==
    << <<"build", "/">>, <<"dist", "/">>, <<"*", ".egg-info", "/">>,
       <<"__pycache__", "/">>, <<"**/", "__pycache__", "/">>,
       <<".pytest_cache", "/">>, <<".coverage">>, <<"htmlcov", "/">>,
       <<"*", ".pyc">>, <<"**/", "*", ".pyc">>,
       <<"*", ".pyo">>, <<"**/", "*", ".pyo">> >>

RECURSIVE fnmatch(_, _)
fnmatch(name, pat) ==
    IF pat = <<>> THEN name = <<>>
    ELSE IF Head(pat) = "*"
         THEN fnmatch(name, Tail(pat))
              \/ (name # <<>> /\ fnmatch(Tail(name), pat))
         ELSE name # <<>> /\ Head(name) = Head(pat)
              /\ fnmatch(Tail(name), Tail(pat))

\* "**/" in pattern
IsRecursive(pattern) == \E i \in 1..Len(pattern) : pattern[i] = "**/"

\* pattern.replace("**/", "")
RECURSIVE StripRecursive(_)
StripRecursive(pattern) ==
    IF pattern = <<>> THEN <<>>
    ELSE IF Head(pattern) = "**/" THEN StripRecursive(Tail(pattern))
         ELSE <<Head(pattern)>> \o StripRecursive(Tail(pattern))

HasTrailingSlash(p) == p # <<>> /\ p[Len(p)] = "/"

NamePart(p) == IF HasTrailingSlash(p) THEN SubSeq(p, 1, Len(p) - 1) ELSE p

IsPrefix(p, q) == Len(p) <= Len(q) /\ SubSeq(q, 1, Len(p)) = p

\* Path.exists()
Exists(t, path) == \E n \in t : n.path = path

\* One path component of a glob against one node.
Selects(p, n, dOnly) ==
    /\ fnmatch(n.path[Len(n.path)], NamePart(p))
    /\ (HasTrailingSlash(p) /\ dOnly) => n.kind = "dir"

\* Path(".").glob(pattern): the entries of "." itself.
glob(t, pattern, dOnly) ==
    {n \in t : Len(n.path) = 1 /\ Selects(pattern, n, dOnly)}

\* Path(".").rglob(pattern): the entries of "." and of every directory below.
rglob(t, pattern, dOnly) ==
    {n \in t : Len(n.path) >= 1 /\ Selects(pattern, n, dOnly)}

\* A removal that, like os.rmdir with its error ignored, leaves a directory
\* that is not empty.
rmtree_OnlyEmpty(t, path) ==
    IF \E n \in t : n.path # path /\ IsPrefix(path, n.path)
    THEN t
    ELSE {n \in t : n.path # path}

\* shutil.rmtree(path): the directory and everything below it.
rmtree(t, path) == {n \in t : ~IsPrefix(path, n.path)}

\* path.unlink(): the file.
unlink(t, path) == {n \in t : n.path # path}

\* if path.is_dir(): shutil.rmtree(path) else: path.unlink()
RemovePath(t, m) ==
    IF m.kind = "dir" THEN rmtree(t, m.path) ELSE unlink(t, m.path)

\* Removing each node of a set, one after the other; the nodes of a set
\* handled together are siblings or unrelated, so their order is immaterial.
RECURSIVE RemoveAll(_, _)
RemoveAll(t, ms) ==
    IF ms = {} THEN t
    ELSE LET m == CHOOSE x \in ms : TRUE
         IN  RemoveAll(RemovePath(t, m), ms \ {m})

\* The loop body over the matches of one pattern.  The walk is top-down, a
\* directory's matching entries are yielded before the walk descends, so
\* the matches at depth d are handled before those at depth d + 1, each
\* guarded by path.exists().
RECURSIVE RemoveMatches(_, _, _, _)
RemoveMatches(t, matches, d, count) ==
    IF \A m \in matches : Len(m.path) < d THEN [tree |-> t, count |-> count]
    ELSE LET here == {m \in matches : Len(m.path) = d /\ Exists(t, m.path)}
         IN  RemoveMatches(RemoveAll(t, here), matches, d + 1,
                           count + Cardinality(here))

RemovePattern(t, pattern, dOnly, count) ==
    IF IsRecursive(pattern)
    THEN RemoveMatches(t, rglob(t, StripRecursive(pattern), dOnly), 1, count)
    ELSE RemoveMatches(t, glob(t, pattern, dOnly), 1, count)

RECURSIVE CleanFrom(_, _, _, _)
CleanFrom(t, i, dOnly, count) ==
    IF i > Len(patterns_to_remove) THEN [tree |-> t, count |-> count]
    ELSE LET r == RemovePattern(t, patterns_to_remove[i], dOnly, count)
         IN  CleanFrom(r.tree, i + 1, dOnly, r.count)

\* clean_build(): the tree it leaves, removed_count and its return value.
clean_build(t, dOnly) ==
    LET r == CleanFrom(t, 1, dOnly, 0)
    IN  [tree |-> r.tree, removed_count |-> r.count, ok |-> TRUE]

(***************************************************************************)
(* dev-build.py: external processes.  An outcome says whether the          *)
(* executable was found on the search path and, if so, its exit code.      *)
(***************************************************************************)
ExitCodes == {0, 1}

Outcomes == [found : {TRUE}, rc : ExitCodes] \cup {[found |-> FALSE, rc |-> 0]}

Proc(cmd, o) == [cmd |-> cmd, out |-> o]

\* A run_command that lets a missing tool pass for a success.
run_command_MissingPasses(o, check) ==
    IF ~o.found THEN TRUE
    ELSE IF check /\ o.rc # 0 THEN FALSE
    ELSE o.rc = 0

\* A run_command that, with check=False, never looks at result.returncode.
run_command_IgnoresReturncode(o, check) ==
    IF ~o.found THEN FALSE
    ELSE IF check /\ o.rc # 0 THEN FALSE
    ELSE TRUE

\* run_command(cmd, description, check): True exactly on exit code 0.  With
\* check=True a non-zero exit raises CalledProcessError, with check=False
\* it is read from result.returncode; a missing tool raises
\* FileNotFoundError.  All three are reported and return False.
run_command(o, check) ==
    IF ~o.found THEN FALSE
    ELSE IF check /\ o.rc # 0 THEN FALSE
    ELSE o.rc = 0

\* check_uv_installed(): subprocess.run(["uv", "--version"], check=True)
check_uv_installed(o) == o.found /\ o.rc = 0

UvVersion == <<"uv", "--version">>
UvRequirements == <<"uv", "pip", "install", "-r", "requirements.txt">>
UvTestRequirements ==
    <<"uv", "pip", "install", "-r", "tests/test_requirements.txt">>
UvEditable == <<"uv", "pip", "install", "-e", ".">>
RunTestsFull == <<"python", "run_tests.py">>
RunTestsQuick == <<"python", "run_tests.py", "--quick">>
PythonBuild == <<"python", "-m", "build">>
SetupPy == <<"python", "setup.py", "sdist", "bdist_wheel">>
Flake8Version == <<"flake8", "--version">>
Flake8Check == <<"flake8", "src/", "tests/">>
BlackVersion == <<"black", "--version">>
BlackCheck == <<"black", "--check", "src/", "tests/">>

\* One clean_build() run inside a step function: what it counted, and how
\* many of the step's processes had been invoked before it.
CleanRec(c, k) == [removed |-> c.removed_count, after_procs |-> k]

\* What a step function hands back: its return value, the processes it
\* invoked, the working directory it leaves and its clean_build runs.
Ret(ok, ps, t, log) == [ok |-> ok, procs |-> ps, tree |-> t, cleans |-> log]

\* An install_dependencies that gives up when tests/test_requirements.txt
\* is not there.
install_dependencies_RequiresTestReq(os, test_req_exists, t) ==
    LET p1 == <<Proc(UvVersion, os[1])>>
        p2 == Append(p1, Proc(UvRequirements, os[2]))
        p3 == Append(p2, Proc(UvTestRequirements, os[3]))
        p4 == Append(p3, Proc(UvEditable, os[4]))
    IN  IF ~check_uv_installed(os[1]) THEN Ret(FALSE, p1, t, <<>>)
        ELSE IF ~run_command(os[2], TRUE) THEN Ret(FALSE, p2, t, <<>>)
        ELSE IF ~test_req_exists THEN Ret(FALSE, p2, t, <<>>)
        ELSE IF ~run_command(os[3], TRUE) THEN Ret(FALSE, p3, t, <<>>)
        ELSE IF ~run_command(os[4], TRUE) THEN Ret(FALSE, p4, t, <<>>)
        ELSE Ret(TRUE, p4, t, <<>>)

\* install_dependencies(); os[1] is the uv probe, os[2..4] the installs.
install_dependencies(os, test_req_exists, t) ==
    LET p1 == <<Proc(UvVersion, os[1])>>
        p2 == Append(p1, Proc(UvRequirements, os[2]))
        p3 == IF test_req_exists
              THEN Append(p2, Proc(UvTestRequirements, os[3]))
              ELSE p2
        p4 == Append(p3, Proc(UvEditable, os[4]))
    IN  IF ~check_uv_installed(os[1]) THEN Ret(FALSE, p1, t, <<>>)
        ELSE IF ~run_command(os[2], TRUE) THEN Ret(FALSE, p2, t, <<>>)
        ELSE IF test_req_exists /\ ~run_command(os[3], TRUE)
             THEN Ret(FALSE, p3, t, <<>>)
        ELSE IF ~run_command(os[4], TRUE) THEN Ret(FALSE, p4, t, <<>>)
        ELSE Ret(TRUE, p4, t, <<>>)

\* run_tests(quick)
run_tests(q, os, t) ==
    LET cmd == IF q THEN RunTestsQuick ELSE RunTestsFull
    IN  Ret(run_command(os[1], FALSE), <<Proc(cmd, os[1])>>, t, <<>>)

\* A build_package that cleans after the build tools have run.
build_package_CleanLast(os, t, dOnly) ==
    LET c == clean_build(t, dOnly)
        p1 == <<Proc(PythonBuild, os[1])>>
        p2 == Append(p1, Proc(SetupPy, os[2]))
    IN  IF ~run_command(os[1], TRUE)
        THEN IF ~run_command(os[2], TRUE)
             THEN Ret(FALSE, p2, c.tree, <<CleanRec(c, 2)>>)
             ELSE Ret(TRUE, p2, c.tree, <<CleanRec(c, 2)>>)
        ELSE Ret(TRUE, p1, c.tree, <<CleanRec(c, 1)>>)

\* build_package(): clean first, then python -m build, then the fallback.
build_package(os, t, dOnly) ==
    LET c == clean_build(t, dOnly)
        log == <<CleanRec(c, 0)>>
        p1 == <<Proc(PythonBuild, os[1])>>
        p2 == Append(p1, Proc(SetupPy, os[2]))
    IN  IF ~run_command(os[1], TRUE)
        THEN IF ~run_command(os[2], TRUE)
             THEN Ret(FALSE, p2, c.tree, log)
             ELSE Ret(TRUE, p2, c.tree, log)
        ELSE Ret(TRUE, p1, c.tree, log)

\* One linter of run_lint(): the --version probe (check=True) and, when it
\* passes, the check itself (check=False).  A failed or missing probe, and a
\* check whose executable vanished, are caught and only warned about.
LintTool(probeCmd, checkCmd, probe, chk) ==
    IF ~(probe.found /\ probe.rc = 0)
    THEN [ok |-> TRUE, procs |-> <<Proc(probeCmd, probe)>>]
    ELSE [ok |-> run_command(chk, FALSE),
          procs |-> <<Proc(probeCmd, probe), Proc(checkCmd, chk)>>]

\* A run_lint that returns as soon as flake8 has found something.
run_lint_ShortCircuit(os, t) ==
    LET f == LintTool(Flake8Version, Flake8Check, os[1], os[2])
        b == LintTool(BlackVersion, BlackCheck, os[3], os[4])
    IN  IF ~f.ok THEN Ret(FALSE, f.procs, t, <<>>)
        ELSE Ret(b.ok, f.procs \o b.procs, t, <<>>)

\* run_lint(): flake8, then black, whatever flake8 gave.
run_lint(os, t) ==
    LET f == LintTool(Flake8Version, Flake8Check, os[1], os[2])
        b == LintTool(BlackVersion, BlackCheck, os[3], os[4])
    IN  Ret(f.ok /\ b.ok, f.procs \o b.procs, t, <<>>)

\* clean_build() as a step.
clean_step(t, dOnly) ==
    LET c == clean_build(t, dOnly)
    IN  Ret(c.ok, <<>>, c.tree, <<CleanRec(c, 0)>>)

\* run_all()'s list `steps`.
steps == <<"install_dependencies", "run_tests", "run_lint", "build_package">>

\* Calling a step function by name with the environment's choices.
CallStep(name, q, os, test_req_exists, t, dOnly) ==
    CASE name = "install_dependencies" ->
            install_dependencies(os, test_req_exists, t)
      [] name = "run_tests" -> run_tests(q, os, t)
      [] name = "run_lint" -> run_lint(os, t)
      [] name = "build_package" -> build_package(os, t, dOnly)
      [] name = "clean_build" -> clean_step(t, dOnly)

Commands == {"install", "test", "clean", "build", "lint", "all", "help"}

\* main()'s if/elif chain for the commands that call one function.
Dispatch(cmd) ==
    CASE cmd = "install" -> "install_dependencies"
      [] cmd = "test" -> "run_tests"
      [] cmd = "clean" -> "clean_build"
      [] cmd = "build" -> "build_package"
      [] cmd = "lint" -> "run_lint"

\* A main() that forgets `not success`.
ExitStatus_Always1(ok, cmd) == IF cmd # "help" THEN 1 ELSE 0

\* main()'s last statement: sys.exit(1) or falling off the end.
ExitStatus(ok, cmd) == IF ~ok /\ cmd # "help" THEN 1 ELSE 0

EnvChoices == [1..4 -> Outcomes]

(***************************************************************************)
(* The orchestrator's main() as a state machine.                           *)
(***************************************************************************)
Node(path, kind) == [path |-> path, kind |-> kind]

\* Working directories the orchestrator is started in.
SampleTrees ==
    { {},
      {Node(<< <<"build">> >>, "dir"),
       Node(<< <<"build">>, <<"m", ".py">> >>, "file"),
       Node(<< <<"m", ".pyc">> >>, "file")},
      {Node(<< <<"src">> >>, "dir"),
       Node(<< <<"src">>, <<"__pycache__">> >>, "dir"),
       Node(<< <<"build">> >>, "file")} }

\* The working directory after a step function returned r.
FsAfter(r) ==
    /\ tree' = r.tree
    /\ dirOnly' = dirOnly
    /\ IF r.cleans # <<>>
       THEN /\ removed_count' = r.cleans[Len(r.cleans)].removed
            /\ tree_before' = tree
            /\ removed_log' =
                  removed_log \o [i \in 1..Len(r.cleans) |-> r.cleans[i].removed]
       ELSE UNCHANGED <<removed_count, tree_before, removed_log>>

\* The record `calls` keeps of a call of step function `name` that returned
\* r: its processes are procs[first..last], clean_build ran when `cleans`
\* processes had been invoked in all, and test_req is what
\* test_req_path.exists() gave (install_dependencies alone looks).
CallRec(name, r, test_req_exists) ==
    [first |-> Len(procs) + 1,
     last |-> Len(procs) + Len(r.procs),
     cleans |-> [i \in 1..Len(r.cleans) |->
                    Len(procs) + r.cleans[i].after_procs],
     test_req |-> name = "install_dependencies" /\ test_req_exists]

\* One branch of main()'s if/elif chain: success = <function>().
MainCall(cmd) ==
    /\ pc = "main"
    /\ command = cmd
    /\ \E os \in EnvChoices, test_req_exists \in BOOLEAN :
          \E r \in {CallStep(Dispatch(cmd), quick, os, test_req_exists,
                            tree, dirOnly)} :
              /\ success' = r.ok
              /\ procs' = procs \o r.procs
              /\ called' = Append(called, Dispatch(cmd))
              /\ results' = Append(results, r.ok)
              /\ calls' = Append(calls,
                                 CallRec(Dispatch(cmd), r, test_req_exists))
              /\ FsAfter(r)
    /\ pc' = "exit"
    /\ UNCHANGED <<command, quick, stepIdx, exitCode>>
    /\ UNCHANGED <<runnerVars, envVars>>

MainInstall == MainCall("install")

MainTest == MainCall("test")

MainClean == MainCall("clean")

MainBuild == MainCall("build")

MainLint == MainCall("lint")

\* elif args.command == "all": success = run_all(): entering run_all.
MainAll ==
    /\ pc = "main"
    /\ command = "all"
    /\ pc' = "run_all"
    /\ stepIdx' = 1
    /\ UNCHANGED <<command, quick, called, results, calls, procs, success,
                   exitCode>>
    /\ UNCHANGED <<fsVars, runnerVars, envVars>>

\* A run_all that reports the failure but goes on with the loop.
AfterStep_NoReturn(ok) == "run_all"

\* What run_all does after a step returned ok: True keeps the loop going,
\* False returns False from run_all.
AfterStep(ok) == IF ok THEN "run_all" ELSE "exit"

\* One iteration of run_all's loop: `if not step_func(): return False`.
RunAllStep ==
    /\ pc = "run_all"
    /\ stepIdx <= Len(steps)
    /\ \E os \in EnvChoices, test_req_exists \in BOOLEAN :
          \E r \in {CallStep(steps[stepIdx], FALSE, os, test_req_exists,
                            tree, dirOnly)} :
              /\ procs' = procs \o r.procs
              /\ called' = Append(called, steps[stepIdx])
              /\ results' = Append(results, r.ok)
              /\ calls' = Append(calls,
                                 CallRec(steps[stepIdx], r, test_req_exists))
              /\ FsAfter(r)
              /\ pc' = AfterStep(r.ok)
              /\ stepIdx' = IF r.ok THEN stepIdx + 1 ELSE stepIdx
              /\ success' = IF AfterStep(r.ok) = "exit" THEN FALSE
                            ELSE success
    /\ UNCHANGED <<command, quick, exitCode>>
    /\ UNCHANGED <<runnerVars, envVars>>

\* The loop ran off the end of `steps`: return True.
RunAllReturn ==
    /\ pc = "run_all"
    /\ stepIdx > Len(steps)
    /\ success' = TRUE
    /\ pc' = "exit"
    /\ UNCHANGED <<command, quick, stepIdx, called, results, calls, procs,
                   exitCode>>
    /\ UNCHANGED <<fsVars, runnerVars, envVars>>

\* elif args.command == "help": show_help(); success = True
MainHelp ==
    /\ pc = "main"
    /\ command = "help"
    /\ success' = TRUE
    /\ pc' = "exit"
    /\ UNCHANGED <<command, quick, stepIdx, called, results, calls, procs,
                   exitCode>>
    /\ UNCHANGED <<fsVars, runnerVars, envVars>>

\* if not success and args.command != "help": sys.exit(1)
MainExit ==
    /\ pc = "exit"
    /\ exitCode' = ExitStatus(success, command)
    /\ pc' = "done"
    /\ UNCHANGED <<command, quick, stepIdx, called, results, calls, procs,
                   success>>
    /\ UNCHANGED <<fsVars, runnerVars, envVars>>

BuildIdle ==
    /\ stepIdx = 0
    /\ called = <<>>
    /\ results = <<>>
    /\ calls = <<>>
    /\ procs = <<>>
    /\ success = FALSE
    /\ exitCode = -1

FsFresh ==
    /\ removed_count = 0
    /\ tree_before = {}
    /\ removed_log = <<>>

\* parse_args() has run; `success = False`.
InitBuild ==
    /\ command \in Commands
    /\ quick \in BOOLEAN
    /\ pc = "main"
    /\ BuildIdle
    /\ tree \in SampleTrees
    /\ dirOnly \in BOOLEAN
    /\ FsFresh
    /\ RunnerIdle
    /\ EnvIdle

NextBuild ==
    \/ MainInstall
    \/ MainTest
    \/ MainClean
    \/ MainBuild
    \/ MainLint
    \/ MainAll
    \/ RunAllStep
    \/ RunAllReturn
    \/ MainHelp
    \/ MainExit

SpecBuild == InitBuild /\ [][NextBuild]_vars

(***************************************************************************)
(* clean_build run in succession on a working directory that other         *)
(* programs have populated.                                                *)
(***************************************************************************)
Paths(t) ==
    {<<n>> : n \in Names}
    \cup {Append(d.path, n) : d \in {x \in t : x.kind = "dir"}, n \in Names}

\* A file or directory appears before the first clean.
Populate ==
    /\ pc = "fs"
    /\ removed_log = <<>>
    /\ Cardinality(tree) < MaxNodes
    /\ \E path \in Paths(tree), kind \in Kinds :
          /\ Len(path) <= MaxDepth
          /\ ~Exists(tree, path)
          /\ tree' = tree \cup {Node(path, kind)}
    /\ UNCHANGED <<dirOnly, removed_count, tree_before, removed_log>>
    /\ UNCHANGED <<buildVars, runnerVars, envVars>>

\* clean_build()
CleanRun ==
    /\ pc = "fs"
    /\ Len(removed_log) < MaxCleanRuns
    /\ \E r \in {clean_step(tree, dirOnly)} :
          /\ FsAfter(r)
          /\ success' = r.ok
    /\ UNCHANGED <<command, quick, pc, stepIdx, called, results, calls, procs,
                   exitCode>>
    /\ UNCHANGED <<runnerVars, envVars>>

InitClean ==
    /\ command = "clean"
    /\ quick = FALSE
    /\ pc = "fs"
    /\ BuildIdle
    /\ tree = {}
    /\ dirOnly \in BOOLEAN
    /\ FsFresh
    /\ RunnerIdle
    /\ EnvIdle

NextClean == Populate \/ CleanRun

SpecClean == InitClean /\ [][NextClean]_vars

(***************************************************************************)
(* run_tests.py: the test runner wrapper.                                  *)
(***************************************************************************)
\* Python truth of an option's value: None and "" are false.
Truthy(v) == v # None /\ v # ""

\* sys.exit(n): the exit status the parent sees.
SysExit(n) == n % 256

\* f"--cov-fail-under={args.coverage_fail}"
CovFailUnder(n) == "--cov-fail-under=" \o ToString(n)

CoverageFlags ==
    <<"--cov=src/opencodespace", "--cov-report=term-missing",
      "--cov-report=html:htmlcov", "--cov-report=xml">>

\* [sys.executable, "-m", "pytest", str(self.test_dir)]
PytestBase == <<"python", "-m", "pytest", "tests">>

QuickMarkers == "unit or (not integration and not slow)"

\* A run_tests that appends the test identifiers before the marker filter.
TestRunner_run_tests_TestsEarly(a) ==
    LET cov == IF a.coverage
               THEN CoverageFlags \o (IF a.coverage_fail # 0
                                      THEN <<CovFailUnder(a.coverage_fail)>>
                                      ELSE <<>>)
               ELSE <<>>
        par == IF Truthy(a.parallel) THEN <<"-n", a.parallel>> ELSE <<>>
        verb == IF a.verbose THEN <<"-v">> ELSE <<>>
        mark == IF Truthy(a.markers) THEN <<"-m", a.markers>> ELSE <<>>
    IN  PytestBase \o cov \o par \o verb \o a.tests \o mark \o a.pytest_args

\* A run_tests that asks for automatic distribution whatever count is given.
TestRunner_run_tests_AlwaysAuto(a) ==
    LET cov == IF a.coverage
               THEN CoverageFlags \o (IF a.coverage_fail # 0
                                      THEN <<CovFailUnder(a.coverage_fail)>>
                                      ELSE <<>>)
               ELSE <<>>
        par == IF Truthy(a.parallel) THEN <<"-n", "auto">> ELSE <<>>
        verb == IF a.verbose THEN <<"-v">> ELSE <<>>
        mark == IF Truthy(a.markers) THEN <<"-m", a.markers>> ELSE <<>>
    IN  PytestBase \o cov \o par \o verb \o mark \o a.tests \o a.pytest_args

\* TestRunner.run_tests(args): the command it builds.
TestRunner_run_tests(a) ==
    LET cov == IF a.coverage
               THEN CoverageFlags \o (IF a.coverage_fail # 0
                                      THEN <<CovFailUnder(a.coverage_fail)>>
                                      ELSE <<>>)
               ELSE <<>>
        par == IF Truthy(a.parallel)
               THEN <<"-n", IF a.parallel # "auto" THEN a.parallel
                            ELSE "auto">>
               ELSE <<>>
        verb == IF a.verbose THEN <<"-v">> ELSE <<>>
        mark == IF Truthy(a.markers) THEN <<"-m", a.markers>> ELSE <<>>
        tsts == IF a.tests # <<>> THEN a.tests ELSE <<>>
        extra == IF a.pytest_args # <<>> THEN a.pytest_args ELSE <<>>
    IN  PytestBase \o cov \o par \o verb \o mark \o tsts \o extra

\* TestRunner.run_quick_tests()
TestRunner_run_quick_tests == PytestBase \o <<"-m", QuickMarkers, "-v">>

\* TestRunner.run_integration_tests()
TestRunner_run_integration_tests == PytestBase \o <<"-m", "integration", "-v">>

\* TestRunner.run_coverage_report()
TestRunner_run_coverage_report ==
    PytestBase \o CoverageFlags \o <<"--cov-fail-under=85">>

\* TestRunner.install_dependencies() / install_package() / lint_tests()
PipTestRequirements ==
    <<"python", "-m", "pip", "install", "-r", "tests/test_requirements.txt">>
PipEditable == <<"python", "-m", "pip", "install", "-e", ".">>
Flake8Tests == <<"python", "-m", "flake8", "tests">>

\* A chain without the --coverage branch.
SelectMode_NoCoverageBranch(a) ==
    IF a.quick THEN "quick"
    ELSE IF a.integration THEN "integration"
    ELSE "default"

\* A chain that tests --coverage before --quick and --integration.
SelectMode_CoverageFirst(a) ==
    IF a.coverage THEN "coverage"
    ELSE IF a.quick THEN "quick"
    ELSE IF a.integration THEN "integration"
    ELSE "default"

\* main()'s if/elif chain over the test types.
SelectMode(a) ==
    IF a.quick THEN "quick"
    ELSE IF a.integration THEN "integration"
    ELSE IF a.coverage THEN "coverage"
    ELSE "default"

\* The command each branch of that chain builds.
ModeCommand(mode, a) ==
    CASE mode = "quick" -> TestRunner_run_quick_tests
      [] mode = "integration" -> TestRunner_run_integration_tests
      [] mode = "coverage" -> TestRunner_run_coverage_report
      [] mode = "default" -> TestRunner_run_tests(a)

\* A run_command that ends with sys.exit(1) whatever the process returned.
TestRunner_run_command_Exit1(rc) == IF rc # 0 THEN 1 ELSE 0

\* TestRunner.run_command(cmd): the wrapper's exit status when it ends with
\* this process: sys.exit(returncode) on failure, and otherwise, for the
\* last command of main(), falling off the end.
TestRunner_run_command(rc) == IF rc # 0 THEN SysExit(rc) ELSE 0

Launch(cmd, rc, kind) == [cmd |-> cmd, rc |-> rc, kind |-> kind]

\* Exit codes of the processes the wrapper starts (pytest: 0..5; pip,
\* flake8).
RunnerExitCodes == {0, 1, 5}

\* A --setup branch without its `return`: main() goes on to the tests.
HandleSetup_NoReturn ==
    /\ rpc = "main"
    /\ args.setup
    /\ \E rc1 \in RunnerExitCodes, rc2 \in RunnerExitCodes :
          LET l1 == Append(launched, Launch(PipTestRequirements, rc1, "pip"))
              l2 == Append(l1, Launch(PipEditable, rc2, "pip"))
          IN  IF rc1 # 0
              THEN /\ launched' = l1
                   /\ rexit' = TestRunner_run_command(rc1)
                   /\ rpc' = "done"
              ELSE /\ launched' = l2
                   /\ rexit' = TestRunner_run_command(rc2)
                   /\ rpc' = IF rc2 # 0 THEN "done" ELSE "run"
    /\ UNCHANGED <<args, modes, deps>>
    /\ UNCHANGED <<buildVars, fsVars, envVars>>

\* if args.setup: install_dependencies(); install_package(); return
HandleSetup ==
    /\ rpc = "main"
    /\ args.setup
    /\ \E rc1 \in RunnerExitCodes, rc2 \in RunnerExitCodes :
          LET l1 == Append(launched, Launch(PipTestRequirements, rc1, "pip"))
              l2 == Append(l1, Launch(PipEditable, rc2, "pip"))
          IN  IF rc1 # 0
              THEN /\ launched' = l1
                   /\ rexit' = TestRunner_run_command(rc1)
              ELSE /\ launched' = l2
                   /\ rexit' = TestRunner_run_command(rc2)
    /\ rpc' = "done"
    /\ UNCHANGED <<args, modes, deps>>
    /\ UNCHANGED <<buildVars, fsVars, envVars>>

\* if args.check: check_test_structure(); return
HandleCheck ==
    /\ rpc = "main"
    /\ ~args.setup
    /\ args.check
    /\ \E test_files_found \in BOOLEAN :
          rexit' = IF test_files_found THEN 0 ELSE 1
    /\ rpc' = "done"
    /\ UNCHANGED <<args, launched, modes, deps>>
    /\ UNCHANGED <<buildVars, fsVars, envVars>>

\* if args.lint: lint_tests(); return
HandleLint ==
    /\ rpc = "main"
    /\ ~args.setup
    /\ ~args.check
    /\ args.lint
    /\ \E rc \in RunnerExitCodes :
          /\ launched' = Append(launched, Launch(Flake8Tests, rc, "flake8"))
          /\ rexit' = TestRunner_run_command(rc)
    /\ rpc' = "done"
    /\ UNCHANGED <<args, modes, deps>>
    /\ UNCHANGED <<buildVars, fsVars, envVars>>

\* The requirements-file check and `import pytest`, with the install that a
\* failed import triggers.
EnsureDependencies ==
    /\ rpc = "main"
    /\ ~args.setup
    /\ ~args.check
    /\ ~args.lint
    /\ \E test_req_exists \in BOOLEAN, pytest_importable \in BOOLEAN,
          rc \in RunnerExitCodes :
          IF ~test_req_exists
          THEN /\ rexit' = 1
               /\ rpc' = "done"
               /\ deps' = "missing_requirements"
               /\ UNCHANGED launched
          ELSE IF pytest_importable
          THEN /\ rpc' = "run"
               /\ deps' = "ready"
               /\ UNCHANGED <<rexit, launched>>
          ELSE /\ launched' =
                      Append(launched, Launch(PipTestRequirements, rc, "pip"))
               /\ IF rc # 0
                  THEN /\ rexit' = TestRunner_run_command(rc)
                       /\ rpc' = "done"
                       /\ deps' = "install_failed"
                  ELSE /\ rpc' = "run"
                       /\ deps' = "ready"
                       /\ UNCHANGED rexit
    /\ UNCHANGED <<args, modes>>
    /\ UNCHANGED <<buildVars, fsVars, envVars>>

\* One branch of the chain: the test run, and with it the end of main().
RunMode(mode) ==
    /\ rpc = "run"
    /\ SelectMode(args) = mode
    /\ \E rc \in RunnerExitCodes :
          /\ launched' =
                Append(launched, Launch(ModeCommand(mode, args), rc, "pytest"))
          /\ rexit' = TestRunner_run_command(rc)
    /\ modes' = Append(modes, mode)
    /\ rpc' = "done"
    /\ UNCHANGED <<args, deps>>
    /\ UNCHANGED <<buildVars, fsVars, envVars>>

RunQuick == RunMode("quick")

RunIntegration == RunMode("integration")

RunCoverageReport == RunMode("coverage")

RunDefault == RunMode("default")

\* Command lines the wrapper is started with, as parsed.
RunnerArgs ==
    [setup : BOOLEAN, quick : BOOLEAN, integration : BOOLEAN,
     coverage : BOOLEAN, coverage_fail : {0, DefaultCoverageFail, 90},
     check : BOOLEAN, lint : BOOLEAN, parallel : {None, "auto"},
     verbose : BOOLEAN, markers : {None, "unit"},
     tests : {<<>>, <<"test_main.py">>},
     pytest_args : {<<>>, <<"-x">>, <<"--cov-fail-under=90">>}]

BuildOff ==
    /\ command = "help"
    /\ quick = FALSE
    /\ pc = "off"
    /\ BuildIdle
    /\ tree = {}
    /\ dirOnly = TRUE
    /\ FsFresh

InitRunner ==
    /\ args \in RunnerArgs
    /\ rpc = "main"
    /\ launched = <<>>
    /\ modes = <<>>
    /\ deps = "unchecked"
    /\ rexit = -1
    /\ BuildOff
    /\ EnvIdle

NextRunner ==
    \/ HandleSetup
    \/ HandleCheck
    \/ HandleLint
    \/ EnsureDependencies
    \/ RunQuick
    \/ RunIntegration
    \/ RunCoverageReport
    \/ RunDefault

SpecRunner == InitRunner /\ [][NextRunner]_vars

(***************************************************************************)
(* Either script, started once: the orchestrator or the wrapper.           *)
(***************************************************************************)
InitScripts == InitBuild \/ InitRunner

NextScripts == NextBuild \/ NextRunner

SpecScripts == InitScripts /\ [][NextScripts]_vars

(***************************************************************************)
(* TestRunner.run_tests called directly, with any namespace.               *)
(***************************************************************************)
MaxTests == 2         \* most identifiers given to --tests
MaxPytestArgs == 2    \* most arguments after --pytest-args

SeqsUpTo(S, n) == UNION {[1..k -> S] : k \in 0..n}

TestIds == {"test_main.py", "tests/test_providers.py::TestLocal"}

PassthroughArgs == {"-x", "-v"}

\* How --parallel stands on the command line: left out, given bare, or
\* given with a worker count.
NotGiven == "<not given>"
NoValue == "<no value>"
ParallelOptions == {NotGiven, NoValue, "4", "0"}

\* parser.add_argument("--parallel", "-n", nargs="?", const="auto"): the
\* value the namespace holds (no type=, so a count stays a string).
ParseParallel(opt) ==
    IF opt = NotGiven THEN None
    ELSE IF opt = NoValue THEN "auto"
    ELSE opt

TranslatorArgs ==
    [setup : {FALSE}, quick : {FALSE}, integration : {FALSE},
     coverage : BOOLEAN, coverage_fail : {0, DefaultCoverageFail, 90},
     check : {FALSE}, lint : {FALSE},
     parallel : {ParseParallel(o) : o \in ParallelOptions},
     verbose : BOOLEAN, markers : {None, "unit"},
     tests : SeqsUpTo(TestIds, MaxTests),
     pytest_args : SeqsUpTo(PassthroughArgs, MaxPytestArgs)]

\* runner.run_tests(args): the command is built and run.
CallRunTests ==
    /\ rpc = "api"
    /\ \E rc \in RunnerExitCodes :
          /\ launched' =
                Append(launched, Launch(TestRunner_run_tests(args), rc, "pytest"))
          /\ IF rc # 0
             THEN /\ rexit' = TestRunner_run_command(rc)
                  /\ rpc' = "done"
             ELSE /\ rpc' = "returned"
                  /\ UNCHANGED rexit
    /\ modes' = Append(modes, "default")
    /\ UNCHANGED <<args, deps>>
    /\ UNCHANGED <<buildVars, fsVars, envVars>>

InitTranslate ==
    /\ args \in TranslatorArgs
    /\ rpc = "api"
    /\ launched = <<>>
    /\ modes = <<>>
    /\ deps = "unchecked"
    /\ rexit = -1
    /\ BuildOff
    /\ EnvIdle

NextTranslate == CallRunTests

SpecTranslate == InitTranslate /\ [][NextTranslate]_vars

(***************************************************************************)
(* tests/conftest.py: the autouse fixture clean_environment around one     *)
(* test.                                                                   *)
(***************************************************************************)
env_vars_to_clean ==
    <<"PASSWORD", "GIT_REPO_URL", "SSH_PRIVATE_KEY", "GIT_USER_NAME",
      "GIT_USER_EMAIL", "VSCODE_EXTENSIONS", "CURSOR_EXTENSIONS",
      "VSCODE_SETTINGS", "CURSOR_SETTINGS", "SKIP_GIT_SETUP">>

\* Variables the enclosing shell or the test may set, and their values.
EnvNames == {"PASSWORD", "SKIP_GIT_SETUP", "HOME", "NEW_VAR"}

EnvValues == {"a", "b"}

Environments == UNION {[D -> EnvValues] : D \in SUBSET EnvNames}

\* d.pop(k, None)
Pop(d, k) == [x \in DOMAIN d \ {k} |-> d[x]]

\* d[k] = v
SetItem(d, k, v) == [x \in DOMAIN d \cup {k} |-> IF x = k THEN v ELSE d[x]]

\* d.update(e)
Update(d, e) ==
    [x \in DOMAIN d \cup DOMAIN e |-> IF x \in DOMAIN e THEN e[x] ELSE d[x]]

\* for var in env_vars_to_clean: os.environ.pop(var, None)
RECURSIVE PopEach(_, _)
PopEach(d, names) ==
    IF names = <<>> THEN d ELSE PopEach(Pop(d, Head(names)), Tail(names))

\* A teardown without os.environ.clear().
Restore_NoClear(d, saved) == Update(d, saved)

\* os.environ.clear(); os.environ.update(original_env)
Restore(d, saved) == Update(EmptyDict, saved)

\* The fixture up to its yield.
FixtureSetup ==
    /\ fpc = "before"
    /\ original_env' = environ
    /\ environ' = PopEach(environ, env_vars_to_clean)
    /\ env_initial' = environ
    /\ env_at_start' = PopEach(environ, env_vars_to_clean)
    /\ fpc' = "body"
    /\ UNCHANGED env_at_end
    /\ UNCHANGED <<buildVars, fsVars, runnerVars>>

\* The test body sets a variable.
TestSetenv ==
    /\ fpc = "body"
    /\ \E k \in EnvNames, v \in EnvValues : environ' = SetItem(environ, k, v)
    /\ UNCHANGED <<original_env, fpc, env_initial, env_at_start, env_at_end>>
    /\ UNCHANGED <<buildVars, fsVars, runnerVars>>

\* The test body deletes a variable.
TestDelenv ==
    /\ fpc = "body"
    /\ \E k \in DOMAIN environ : environ' = Pop(environ, k)
    /\ UNCHANGED <<original_env, fpc, env_initial, env_at_start, env_at_end>>
    /\ UNCHANGED <<buildVars, fsVars, runnerVars>>

\* The test body ends (passing or failing): the fixture after its yield.
FixtureTeardown ==
    /\ fpc = "body"
    /\ env_at_end' = environ
    /\ environ' = Restore(environ, original_env)
    /\ fpc' = "after"
    /\ UNCHANGED <<original_env, env_initial, env_at_start>>
    /\ UNCHANGED <<buildVars, fsVars, runnerVars>>

InitEnv ==
    /\ environ \in Environments
    /\ original_env = EmptyDict
    /\ fpc = "before"
    /\ env_initial = EmptyDict
    /\ env_at_start = EmptyDict
    /\ env_at_end = EmptyDict
    /\ BuildOff
    /\ RunnerIdle

NextEnv == FixtureSetup \/ TestSetenv \/ TestDelenv \/ FixtureTeardown

SpecEnv == InitEnv /\ [][NextEnv]_vars

(***************************************************************************)
(* The claims about the build orchestrator, under SpecBuild.               *)
(***************************************************************************)
Ended == pc \in {"exit", "done"}

ExitedZero(p) == p.out.found /\ p.out.rc = 0

ExitedNonZero(p) == p.out.found /\ p.out.rc # 0

\* C1: run_all invokes install, test (the full suite), lint, build in this
\* order; no step function is invoked after one that returned failure, and
\* run_all returns success only if all four returned success.
C1_RunAllOrder ==
    command = "all" =>
        LET order == <<"install_dependencies", "run_tests", "run_lint",
                       "build_package">>
        IN  /\ Len(called) <= 4
            /\ Len(results) = Len(called)
            /\ \A i \in 1..Len(called) : called[i] = order[i]
            /\ \A i \in 1..(Len(called) - 1) : results[i] = TRUE
            /\ \A i \in 1..Len(procs) : procs[i].cmd # RunTestsQuick
            /\ Ended =>
                  /\ success <=> (Len(called) = 4
                                  /\ \A i \in 1..4 : results[i] = TRUE)
                  /\ ~success => results[Len(results)] = FALSE

\* C1's case: the pipeline stopped right after the failing test step.
C1_Witness ==
    /\ command = "all"
    /\ pc = "done"
    /\ called = <<"install_dependencies", "run_tests">>
    /\ results = <<TRUE, FALSE>>
    /\ ~success

\* C2 as stated: all constituent invocations exit zero => success, and any
\* single non-zero exit => failure, for every subcommand but help.
C2_Original ==
    (Ended /\ command # "help") =>
        /\ (\A i \in 1..Len(procs) : ExitedZero(procs[i])) => success
        /\ (\E i \in 1..Len(procs) : ExitedNonZero(procs[i])) => ~success

\* A non-zero exit that the code does not count: a linter's --version probe
\* (the linter is skipped), and `python -m build` when the setup.py fallback
\* that follows it exits zero.
C2_Excused(i) ==
    \/ procs[i].cmd \in {Flake8Version, BlackVersion}
    \/ /\ procs[i].cmd = PythonBuild
       /\ i < Len(procs)
       /\ procs[i + 1].cmd = SetupPy
       /\ ExitedZero(procs[i + 1])

\* C2, amended: all constituent invocations exit zero => success; a non-zero
\* exit => failure unless it is a linter's --version probe or a
\* `python -m build` whose setup.py fallback exits zero.
C2_Amended ==
    (Ended /\ command # "help") =>
        /\ (\A i \in 1..Len(procs) : ExitedZero(procs[i])) => success
        /\ (\E i \in 1..Len(procs) :
               ExitedNonZero(procs[i]) /\ ~C2_Excused(i)) => ~success

\* C2's case: lint ran with an excused non-zero probe and a counted
\* non-zero check.
C2_Witness ==
    /\ command = "lint"
    /\ pc = "done"
    /\ Len(procs) = 3
    /\ procs[1].cmd = Flake8Version /\ ExitedNonZero(procs[1])
    /\ procs[3].cmd = BlackCheck /\ ExitedNonZero(procs[3])
    /\ ~success

\* What the selected command returned, read from the history.
C6_Returned ==
    CASE command = "help" -> TRUE
      [] command = "all" -> Len(results) = 4 /\ results[4]
      [] OTHER -> Len(results) = 1 /\ results[1]

\* C6: the orchestrator exits 1 when the selected command returned failure,
\* 0 when it returned success, and help always exits 0.
C6_ExitCode ==
    pc = "done" =>
        /\ exitCode = IF C6_Returned THEN 0 ELSE 1
        /\ command = "help" => exitCode = 0

\* C6's case: a failing lint made the process exit 1.
C6_Witness ==
    /\ pc = "done"
    /\ command = "lint"
    /\ results = <<FALSE>>
    /\ exitCode = 1

(***************************************************************************)
(* The claims about the test runner wrapper, under SpecRunner.             *)
(***************************************************************************)
\* The command of the test run the wrapper launched.
TestRun == launched[Len(launched)]

TestRunLaunched ==
    modes # <<>> /\ launched # <<>> /\ TestRun.kind = "pytest"

Contains(cmd, frag) == \E i \in 1..Len(cmd) : cmd[i] = frag

\* C3 as stated: with `--coverage --coverage-fail 90` (and no --setup,
\* --check, --lint, --quick, --integration) the command of the test run
\* carries the threshold given, --cov-fail-under=90, and no quick marker
\* filter.
C3_Original ==
    (/\ TestRunLaunched
     /\ args.coverage /\ args.coverage_fail = 90
     /\ ~args.setup /\ ~args.check /\ ~args.lint
     /\ ~args.quick /\ ~args.integration) =>
        /\ Contains(TestRun.cmd, "--cov-fail-under=90")
        /\ ~Contains(TestRun.cmd, "unit or (not integration and not slow)")

\* Any fragment that turns coverage on.
C4_IsCoverageFlag(x) ==
    x \in {"--cov=src/opencodespace", "--cov-report=term-missing",
           "--cov-report=html:htmlcov", "--cov-report=xml",
           "--cov-fail-under=0", "--cov-fail-under=85",
           "--cov-fail-under=90"}

\* C4: the mode is chosen by priority quick > integration > coverage-report
\* > default; --quick with --coverage gives exactly the quick invocation,
\* with no coverage flag.
C4_ModePriority ==
    TestRunLaunched =>
        /\ modes[1] = IF args.quick THEN "quick"
                      ELSE IF args.integration THEN "integration"
                      ELSE IF args.coverage THEN "coverage"
                      ELSE "default"
        /\ args.quick =>
              TestRun.cmd = <<"python", "-m", "pytest", "tests", "-m",
                              "unit or (not integration and not slow)", "-v">>
        /\ (~args.quick /\ args.integration) =>
              TestRun.cmd = <<"python", "-m", "pytest", "tests", "-m",
                              "integration", "-v">>
        /\ (args.quick /\ args.coverage) =>
              \A i \in 1..Len(TestRun.cmd) : ~C4_IsCoverageFlag(TestRun.cmd[i])

\* C4's case: --quick --coverage ran the quick tests.
C4_Witness ==
    /\ rpc = "done"
    /\ args.quick /\ args.coverage
    /\ modes = <<"quick">>
    /\ TestRun.kind = "pytest"

\* C5 as stated: every invocation executes exactly one test mode.
C5_Original == rpc = "done" => Len(modes) = 1

\* C5, amended: never more than one test mode executes; exactly one does
\* when none of --setup, --check, --lint is given, the requirements file
\* exists and pytest is importable or its installation succeeds, and none
\* does otherwise.
C5_Amended ==
    /\ Len(modes) <= 1
    /\ Cardinality({i \in 1..Len(launched) : launched[i].kind = "pytest"})
          = Len(modes)
    /\ rpc = "done" =>
          (Len(modes) = 1 <=>
              (~args.setup /\ ~args.check /\ ~args.lint /\ deps = "ready"))

\* C5's case: all three mode flags were given and one mode ran.
C5_Witness ==
    /\ rpc = "done"
    /\ args.quick /\ args.integration /\ args.coverage
    /\ deps = "ready"
    /\ Len(modes) = 1

\* C7: the wrapper exits with the exit code of the test run it launched.
C7_ExitCodePropagates ==
    (rpc = "done" /\ TestRunLaunched) => rexit = TestRun.rc

\* C7's case: the coverage run exited 5 and so did the wrapper.
C7_Witness ==
    /\ rpc = "done"
    /\ modes = <<"coverage">>
    /\ TestRun.rc = 5
    /\ rexit = 5

C9_CleanupSet ==
    {"PASSWORD", "GIT_REPO_URL", "SSH_PRIVATE_KEY", "GIT_USER_NAME",
     "GIT_USER_EMAIL", "VSCODE_EXTENSIONS", "CURSOR_EXTENSIONS",
     "VSCODE_SETTINGS", "CURSOR_SETTINGS", "SKIP_GIT_SETUP"}

\* C9: every variable of the cleanup set is absent when the test body
\* starts, and after teardown os.environ equals what it was before the
\* fixture ran, whatever the test body set, changed or deleted.
C9_EnvironmentRestored ==
    /\ fpc \in {"body", "after"} =>
          /\ DOMAIN env_at_start \cap C9_CleanupSet = {}
          /\ \A k \in DOMAIN env_initial \ C9_CleanupSet :
                k \in DOMAIN env_at_start /\ env_at_start[k] = env_initial[k]
    /\ fpc = "after" =>
          /\ DOMAIN environ = DOMAIN env_initial
          /\ \A k \in DOMAIN environ : environ[k] = env_initial[k]

\* C9's case: the shell had PASSWORD and HOME set; the test set PASSWORD
\* anew, added NEW_VAR and deleted HOME; teardown has run.
C9_Witness ==
    /\ fpc = "after"
    /\ "PASSWORD" \in DOMAIN env_initial
    /\ "HOME" \in DOMAIN env_initial
    /\ "NEW_VAR" \notin DOMAIN env_initial
    /\ "PASSWORD" \in DOMAIN env_at_end
    /\ env_at_end["PASSWORD"] # env_initial["PASSWORD"]
    /\ "NEW_VAR" \in DOMAIN env_at_end
    /\ "HOME" \notin DOMAIN env_at_end

(***************************************************************************)
(* The claim about TestRunner.run_tests, under SpecTranslate.              *)
(***************************************************************************)
\* C10: in the command run_tests builds, the passthrough arguments come
\* last, unchanged and in order, the test identifiers right before them,
\* and every flag fragment (coverage, parallel, verbose, markers) before
\* the first test identifier.
C10_TestsAfterFlagsPassthroughLast ==
    \A j \in 1..Len(launched) :
        LET c == launched[j].cmd
            n == Len(c)
            nP == Len(args.pytest_args)
            nT == Len(args.tests)
            flagsEnd == n - nP - nT
        IN  /\ flagsEnd >= 4
            /\ SubSeq(c, n - nP + 1, n) = args.pytest_args
            /\ SubSeq(c, flagsEnd + 1, n - nP) = args.tests
            /\ \A i \in 1..flagsEnd : c[i] \notin TestIds
            /\ args.coverage =>
                  \E i \in 5..flagsEnd : c[i] = "--cov=src/opencodespace"
            /\ (args.coverage /\ args.coverage_fail = 90) =>
                  \E i \in 5..flagsEnd : c[i] = "--cov-fail-under=90"
            /\ args.parallel # None =>
                  \E i \in 5..(flagsEnd - 1) :
                      c[i] = "-n" /\ c[i + 1] = args.parallel
            /\ args.verbose => \E i \in 5..flagsEnd : c[i] = "-v"
            /\ args.markers # None =>
                  \E i \in 5..(flagsEnd - 1) :
                      c[i] = "-m" /\ c[i + 1] = args.markers

\* C10's case: every kind of fragment, two test identifiers and two
\* passthrough arguments.
C10_Witness ==
    /\ launched # <<>>
    /\ args.coverage /\ args.verbose
    /\ args.parallel = "4" /\ args.markers = "unit"
    /\ Len(args.tests) = 2
    /\ args.pytest_args = <<"-x", "-v">>

\* C11: the parallel option adds the fragment -n <value> to the command
\* run_tests builds: --parallel given bare adds -n auto, --parallel N adds
\* -n N for each count N, exactly once, and when the option is left out the
\* command holds no -n ahead of the passthrough arguments.
C11_ParallelFragment ==
    \A j \in 1..Len(launched) :
        LET c == launched[j].cmd
            own == Len(c) - Len(args.pytest_args)
            at == {i \in 1..own : c[i] = "-n"}
        IN  \A o \in ParallelOptions :
                args.parallel = ParseParallel(o) =>
                    IF o = NotGiven THEN at = {}
                    ELSE /\ Cardinality(at) = 1
                         /\ \A i \in at :
                                /\ i < own
                                /\ c[i + 1] = (IF o = NoValue THEN "auto" ELSE o)

\* C11's case: a worker count of 0 was given and the command was run.
C11_Witness ==
    /\ launched # <<>>
    /\ args.parallel = ParseParallel("0")
    /\ \E i \in 1..(Len(TestRun.cmd) - 1) :
          TestRun.cmd[i] = "-n" /\ TestRun.cmd[i + 1] = "0"

\* A --cov-fail-under fragment, whatever its threshold.
C16_IsThreshold(x) == \E n \in 0..100 : x = CovFailUnder(n)

\* What the wrapper itself put into the command of its test run: all of it
\* but the test identifiers and passthrough arguments, which the default
\* mode copies from the command line.
C16_Own ==
    IF modes[1] = "default"
    THEN SubSeq(TestRun.cmd, 1, Len(TestRun.cmd) - Len(args.tests)
                                  - Len(args.pytest_args))
    ELSE TestRun.cmd

StepRange(k) == calls[k].first .. calls[k].last

Tool(p) == p.cmd[1]

\* Step call k needed `tool` and the tool was not on the search path: every
\* invocation of it in that call failed to find the executable.
Missing(k, tool) ==
    /\ \E i \in StepRange(k) : Tool(procs[i]) = tool
    /\ \A i \in StepRange(k) : Tool(procs[i]) = tool => ~procs[i].out.found

Invoked(k, cmd) == \E i \in StepRange(k) : procs[i].cmd = cmd

\* C12 as stated: a step function whose tool (uv, python, flake8, black) is
\* not found returns failure.
C12_Original ==
    \A k \in 1..Len(calls) :
        \A tool \in {"uv", "python", "flake8", "black"} :
            Missing(k, tool) => results[k] = FALSE

\* C12, amended: install, test and build return failure when uv or python
\* is not found; a linter that is not found is skipped, its check is never
\* invoked, and lint returns success when both linters are missing.
C12_Amended ==
    \A k \in 1..Len(calls) :
        /\ \A tool \in {"uv", "python"} :
              Missing(k, tool) => results[k] = FALSE
        /\ Missing(k, "flake8") => ~Invoked(k, Flake8Check)
        /\ Missing(k, "black") => ~Invoked(k, BlackCheck)
        /\ (Missing(k, "flake8") /\ Missing(k, "black")) => results[k] = TRUE

\* C12's case: `build` with python missing for both python -m build and
\* the setup.py fallback; the orchestrator has exited with status 1.
C12_Witness ==
    /\ Ended
    /\ command = "build"
    /\ Len(calls) = 1
    /\ Missing(1, "python")
    /\ Invoked(1, SetupPy)
    /\ exitCode = 1

\* C14: build_package runs clean_build, once and to its end, before it
\* invokes any build tool; python -m build is the first tool; the setup.py
\* fallback is invoked after a failed python -m build and in no other case;
\* and build_package returns success exactly when python -m build succeeded
\* or, that having failed, the fallback succeeded.
C14_CleanThenBuildThenFallback ==
    \A k \in 1..Len(calls) :
        called[k] = "build_package" =>
            LET first == calls[k].first
                last == calls[k].last
                built == ExitedZero(procs[first])
            IN  /\ calls[k].cleans = <<first - 1>>
                /\ k = Len(calls) =>
                      tree = clean_build(tree_before, dirOnly).tree
                /\ last >= first
                /\ procs[first].cmd = PythonBuild
                /\ \A i \in (first + 1)..last : procs[i].cmd = SetupPy
                /\ IF built THEN last = first ELSE last = first + 1
                /\ results[k] = (built \/ ExitedZero(procs[last]))

\* C14's case: `build` in a directory with build artifacts; python -m build
\* failed, the fallback succeeded and the orchestrator exited with 0.
C14_Witness ==
    /\ pc = "done"
    /\ command = "build"
    /\ removed_count > 0
    /\ Len(procs) = 2
    /\ ExitedNonZero(procs[1])
    /\ procs[2].cmd = SetupPy /\ ExitedZero(procs[2])
    /\ results = <<TRUE>>
    /\ exitCode = 0

\* C15: run_lint probes black whatever flake8 gave; a linter whose --version
\* probe fails or is missing is skipped, its check is not invoked, and
\* that does not count as failure, so lint returns success when neither
\* linter is installed; the check of a linter whose probe passed is
\* invoked; and lint returns failure exactly when the check of at least
\* one such linter does not come back with exit code 0.
C15_LintNoShortCircuit ==
    \A k \in 1..Len(calls) :
        called[k] = "run_lint" =>
            LET first == calls[k].first
                last == calls[k].last
                flake8 == ExitedZero(procs[first])
                probe == first + (IF flake8 THEN 2 ELSE 1)
                black == ExitedZero(procs[probe])
            IN  /\ procs[first].cmd = Flake8Version
                /\ probe <= last
                /\ procs[probe].cmd = BlackVersion
                /\ last = probe + (IF black THEN 1 ELSE 0)
                /\ flake8 <=> Invoked(k, Flake8Check)
                /\ flake8 => procs[first + 1].cmd = Flake8Check
                /\ black <=> Invoked(k, BlackCheck)
                /\ black => procs[last].cmd = BlackCheck
                /\ (~flake8 /\ ~black) => results[k] = TRUE
                /\ results[k] = FALSE <=>
                      \/ flake8 /\ ~ExitedZero(procs[first + 1])
                      \/ black /\ ~ExitedZero(procs[last])

\* C15's case: `lint` where flake8 reported problems, and black was still
\* probed and run and found nothing; the orchestrator exited with 1.
C15_Witness ==
    /\ pc = "done"
    /\ command = "lint"
    /\ Len(procs) = 4
    /\ procs[2].cmd = Flake8Check /\ ExitedNonZero(procs[2])
    /\ procs[4].cmd = BlackCheck /\ ExitedZero(procs[4])
    /\ results = <<FALSE>>
    /\ exitCode = 1

(***************************************************************************)
(* The claim about missing files, under SpecScripts.                       *)
(***************************************************************************)
\* Call k is install_dependencies with tests/test_requirements.txt missing:
\* the install of the test requirements is left out, the editable install
\* follows the requirements install, and the call returns what the
\* editable install gave.
InstallSkipsTestReq(k) ==
    (called[k] = "install_dependencies" /\ ~calls[k].test_req) =>
        /\ ~Invoked(k, UvTestRequirements)
        /\ \A i \in StepRange(k) :
              (procs[i].cmd = UvRequirements /\ ExitedZero(procs[i])) =>
                  /\ i + 1 = calls[k].last
                  /\ procs[i + 1].cmd = UvEditable
                  /\ results[k] = ExitedZero(procs[i + 1])

\* C13 as stated: a missing tests/test_requirements.txt only skips the
\* sub-step of the orchestrator's install, and in the wrapper it does not by
\* itself make the invocation fail: the wrapper that found it missing and
\* launched nothing that failed exits with status 0.
C13_Original ==
    /\ \A k \in 1..Len(calls) : InstallSkipsTestReq(k)
    /\ (rpc = "done" /\ deps = "missing_requirements"
           /\ \A j \in 1..Len(launched) : launched[j].rc = 0) => rexit = 0

\* C13, amended: a missing tests/test_requirements.txt only skips the
\* sub-step of the orchestrator's install; the wrapper, started without
\* --setup, --check and --lint, exits with status 1 when the file is missing,
\* before it has launched anything.
C13_Amended ==
    /\ \A k \in 1..Len(calls) : InstallSkipsTestReq(k)
    /\ deps = "missing_requirements" =>
          /\ ~args.setup /\ ~args.check /\ ~args.lint
          /\ rpc = "done"
          /\ rexit = 1
          /\ launched = <<>>
          /\ modes = <<>>

\* C13's case: `install` without tests/test_requirements.txt went through
\* to a successful editable install and the orchestrator exited with 0.
C13_Witness ==
    /\ pc = "done"
    /\ command = "install"
    /\ Len(calls) = 1
    /\ ~calls[1].test_req
    /\ Len(procs) = 3
    /\ procs[3].cmd = UvEditable
    /\ results = <<TRUE>>
    /\ exitCode = 0

====
